---- MODULE Spec2Model ----
(***************************************************************************)
(* A model of annil-server's provider layer (src/src/provider.rs) and of   *)
(* its redirect handlers (src/src/lib.rs).                                 *)
(*                                                                         *)
(*   RangeSpec  content_range_to_range applied to Content-Range headers    *)
(*   Spec       one provider call: get_audio / get_cover on a backend,     *)
(*              down to read_response, read_duration and read_header,      *)
(*              and the consumer reading the returned reader to its end    *)
(*   ServeSpec  audio_redirect, cover_redirect and the admin reload        *)
(*              sharing the provider behind its RwLock (with fairness)     *)
(*                                                                         *)
(* Strings are sequences of one-character strings, byte streams are        *)
(* sequences of 0..255, Option<T> is a record [some, v].                   *)
(***************************************************************************)
EXTENDS Integers, Sequences, FiniteSets, TLC

VARIABLES
    cr_pc,      \* RangeSpec: "idle" | "parsed"
    cr_in,      \* RangeSpec: the Option<&str> handed to content_range_to_range
    cr_parts,   \* RangeSpec: how cr_in was built (its form and its S, E, T fields)
    cr_out,     \* RangeSpec: the Range that came back
    pc,         \* Spec: where the provider call stands
    call,       \* Spec: the call's arguments (backend, operation, requested range)
    resp,       \* Spec: the HTTP response to the track request
    out,        \* Spec: the call's outcome (a result value, or a panic)
    delivered,  \* Spec: what the consumer got reading the returned reader to its end
    hpc,        \* ServeSpec: each handler's position
    req,        \* ServeSpec: each handler's request and what it observed
    readers,    \* ServeSpec: holders of the provider's read guard
    writer,     \* ServeSpec: holder of the provider's write guard
    waitq,      \* ServeSpec: the RwLock's FIFO queue of waiting handlers
    epoch,      \* ServeSpec: number of reloads that have taken effect
    backend     \* ServeSpec: the provider type P the app was made with

cr_vars == <<cr_pc, cr_in, cr_parts, cr_out>>
op_vars == <<pc, call, resp, out, delivered>>
sv_vars == <<hpc, req, readers, writer, waitq, epoch, backend>>
vars == <<cr_vars, op_vars, sv_vars>>

(***************************************************************************)
(* Bounds                                                                  *)
(***************************************************************************)
MaxTokLen == 2      \* longest generated S, E or T field of a Content-Range
MaxReloads == 2     \* reloads the admin issues

(***************************************************************************)
(* Option and strings                                                      *)
(***************************************************************************)
None == [some |-> FALSE, v |-> 0]
Some(x) == [some |-> TRUE, v |-> x]
NoneStr == [some |-> FALSE, v |-> <<>>]

\* TLC's integers are 32 bits wide.  A u64 that may exceed them is kept as its
\* numeral: eight base-256 digits, most significant first (total_samples and
\* the duration), or as decimal digits (a header field being parsed).
U64MaxDecimal ==
    <<"1", "8", "4", "4", "6", "7", "4", "4", "0", "7", "3", "7", "0", "9", "5", "5", "1", "6", "1", "5">>

Digits == {"0", "1", "2", "3", "4", "5", "6", "7", "8", "9"}

DigitVal(c) ==
    CASE c = "0" -> 0 [] c = "1" -> 1 [] c = "2" -> 2 [] c = "3" -> 3
      [] c = "4" -> 4 [] c = "5" -> 5 [] c = "6" -> 6 [] c = "7" -> 7
      [] c = "8" -> 8 [] c = "9" -> 9

RECURSIVE DecimalValue(_)
DecimalValue(s) ==
    IF s = <<>> THEN 0
    ELSE 10 * DecimalValue(SubSeq(s, 1, Len(s) - 1)) + DigitVal(s[Len(s)])

\* str::parse::<u64>: an optional leading '+', then one or more decimal
\* digits, the value within u64; anything else is an error.
StripPlus(s) == IF s # <<>> /\ s[1] = "+" THEN Tail(s) ELSE s

RECURSIVE StripZeros(_)
StripZeros(s) == IF Len(s) > 1 /\ s[1] = "0" THEN StripZeros(Tail(s)) ELSE s

\* a <= b for decimal numerals of one length.
RECURSIVE DecimalLeq(_, _)
DecimalLeq(a, b) ==
    \/ a = <<>>
    \/ DigitVal(a[1]) < DigitVal(b[1])
    \/ a[1] = b[1] /\ DecimalLeq(Tail(a), Tail(b))

FitsU64(d) ==
    LET n == StripZeros(d) IN
    \/ Len(n) < Len(U64MaxDecimal)
    \/ Len(n) = Len(U64MaxDecimal) /\ DecimalLeq(n, U64MaxDecimal)

ParseU64(s) ==
    LET d == StripPlus(s) IN
    IF d # <<>> /\ (\A i \in 1..Len(d) : d[i] \in Digits) /\ FitsU64(d)
    THEN Some(DecimalValue(d))
    ELSE None

\* str::split_once(ch): cut at the FIRST occurrence of ch.
FirstIndex(s, ch) ==
    IF \E i \in 1..Len(s) : s[i] = ch
    THEN CHOOSE i \in 1..Len(s) : s[i] = ch /\ \A j \in 1..(i - 1) : s[j] # ch
    ELSE 0

SplitOnce(s, ch) ==
    LET i == FirstIndex(s, ch) IN
    IF i = 0 THEN None
    ELSE Some(<<SubSeq(s, 1, i - 1), SubSeq(s, i + 1, Len(s))>>)

UnwrapOr(o, d) == IF o.some THEN o.v ELSE d

(***************************************************************************)
(* Range and content_range_to_range                                        *)
(***************************************************************************)
FULL == [start |-> 0, end |-> None, total |-> None]

PrefixLen == 6

\* A plausible bug: one unparsable field makes the whole header FULL.
content_range_to_range_strict(content_range) ==
    IF ~content_range.some \/ Len(content_range.v) <= PrefixLen THEN FULL
    ELSE
        LET rest == SubSeq(content_range.v, PrefixLen + 1, Len(content_range.v))
            a == UnwrapOr(SplitOnce(rest, "-"), <<rest, <<>>>>)
            b == UnwrapOr(SplitOnce(a[2], "/"), <<a[2], <<>>>>)
        IN IF ParseU64(a[1]).some /\ ParseU64(b[1]).some /\ ParseU64(b[2]).some
           THEN [start |-> ParseU64(a[1]).v, end |-> ParseU64(b[1]), total |-> ParseU64(b[2])]
           ELSE FULL

content_range_to_range(content_range) ==
    IF ~content_range.some THEN FULL
    ELSE IF Len(content_range.v) <= PrefixLen THEN FULL
    ELSE
        LET rest == SubSeq(content_range.v, PrefixLen + 1, Len(content_range.v))
            a == UnwrapOr(SplitOnce(rest, "-"), <<rest, <<>>>>)
            from == a[1]
            b == UnwrapOr(SplitOnce(a[2], "/"), <<a[2], <<>>>>)
            to == b[1]
            total == b[2]
        IN [start |-> UnwrapOr(ParseU64(from), 0),
            end |-> ParseU64(to),
            total |-> ParseU64(total)]

(***************************************************************************)
(* RangeSpec: the headers content_range_to_range is applied to             *)
(***************************************************************************)
RECURSIVE StringsUpTo(_, _)
StringsUpTo(alphabet, n) ==
    IF n = 0 THEN {<<>>}
    ELSE LET shorter == StringsUpTo(alphabet, n - 1) IN
         shorter \cup {Append(s, c) : s \in shorter, c \in alphabet}

\* The three fields of "bytes S-E/T".  S holds no '-' and E no '/', so that
\* the header has one reading as S-E/T; '+', 'x' and the other separator are
\* the junk a field may hold.
TokS == StringsUpTo({"1", "+", "/"}, MaxTokLen) \cup {<<"0">>}
TokE == StringsUpTo({"2", "x", "-"}, MaxTokLen) \cup {<<"1", "0", "2", "3">>}
TokT == StringsUpTo({"3", "x", "-", "/"}, MaxTokLen)
            \cup {<<"1", "0", "2", "4", "0">>, Append(U64MaxDecimal, "0")}

BytesPrefix == <<"b", "y", "t", "e", "s", " ">>

FormHeader(s, e, t) == BytesPrefix \o s \o <<"-">> \o e \o <<"/">> \o t

\* Headers no longer than the prefix.
ShortHeaders ==
    {SubSeq(BytesPrefix, 1, n) : n \in 0..6}
        \cup {<<"1", "-", "2", "/", "3">>, <<"0", "-", "9">>, <<"b", "y", "t", "e", "s", "=">>,
              <<"1", "2", "3", "4", "5", "6">>}

CrInit ==
    /\ cr_pc = "idle"
    /\ cr_in = NoneStr
    /\ cr_parts = [form |-> "none", s |-> <<>>, e |-> <<>>, t |-> <<>>]
    /\ cr_out = FULL

ParseAbsent ==
    /\ cr_pc = "idle"
    /\ cr_in' = NoneStr
    /\ cr_parts' = [form |-> "absent", s |-> <<>>, e |-> <<>>, t |-> <<>>]
    /\ cr_out' = content_range_to_range(NoneStr)
    /\ cr_pc' = "parsed"
    /\ UNCHANGED <<op_vars, sv_vars>>

ParseShort ==
    /\ cr_pc = "idle"
    /\ \E h \in ShortHeaders :
        /\ cr_in' = Some(h)
        /\ cr_parts' = [form |-> "short", s |-> <<>>, e |-> <<>>, t |-> <<>>]
        /\ cr_out' = content_range_to_range(Some(h))
    /\ cr_pc' = "parsed"
    /\ UNCHANGED <<op_vars, sv_vars>>

ParseForm ==
    /\ cr_pc = "idle"
    /\ \E s \in TokS, e \in TokE, t \in TokT :
        /\ cr_in' = Some(FormHeader(s, e, t))
        /\ cr_parts' = [form |-> "bytes", s |-> s, e |-> e, t |-> t]
        /\ cr_out' = content_range_to_range(Some(FormHeader(s, e, t)))
    /\ cr_pc' = "parsed"
    /\ UNCHANGED <<op_vars, sv_vars>>

(***************************************************************************)
(* Bytes, big-endian words and readers                                     *)
(***************************************************************************)
RECURSIVE BE(_)
BE(bytes) ==
    IF bytes = <<>> THEN 0
    ELSE 256 * BE(SubSeq(bytes, 1, Len(bytes) - 1)) + bytes[Len(bytes)]

RECURSIVE ToBE(_, _)
ToBE(v, n) ==
    IF n = 0 THEN <<>> ELSE Append(ToBE(v \div 256, n - 1), v % 256)

\* A response body as a stream: its bytes, then a clean end (err = FALSE) or
\* an I/O error (err = TRUE).  A reader over it counts what it has handed out
\* (pos) and the reads issued on it (reads).
Reader(stream) == [bytes |-> stream.bytes, err |-> stream.err, pos |-> 0, reads |-> 0]

\* read_exact of n bytes: all n, or an error (UnexpectedEof, or the stream's own).
ReadExact(r, n) ==
    LET ok == r.pos + n <= Len(r.bytes) IN
    [ok |-> ok,
     data |-> IF ok THEN SubSeq(r.bytes, r.pos + 1, r.pos + n) ELSE <<>>,
     r |-> [r EXCEPT !.pos = IF ok THEN r.pos + n ELSE Len(r.bytes), !.reads = @ + 1]]

\* A u32 is kept as its two 16-bit halves <<high, low>>.
read_u32(r) ==
    LET x == ReadExact(r, 4) IN
    [ok |-> x.ok,
     v |-> IF x.ok THEN <<BE(SubSeq(x.data, 1, 2)), BE(SubSeq(x.data, 3, 4))>> ELSE <<0, 0>>,
     r |-> x.r]

write_u32(v) == ToBE(v[1], 2) \o ToBE(v[2], 2)

\* A small number as a u64 numeral, and u64 / divisor by long division.
U64(n) == ToBE(n, 8)

RECURSIVE LongDiv(_, _, _)
LongDiv(digits, divisor, rem) ==
    IF digits = <<>> THEN <<>>
    ELSE LET cur == rem * 256 + Head(digits) IN
         <<cur \div divisor>> \o LongDiv(Tail(digits), divisor, cur % divisor)

(***************************************************************************)
(* BlockStreamInfo: the 34-byte STREAMINFO structure                       *)
(*   u16 min_block_size, u16 max_block_size, u24 min_frame_size,           *)
(*   u24 max_frame_size, 20 bits sample_rate, 3 bits channels - 1,         *)
(*   5 bits bits_per_sample - 1, 36 bits total_samples, 16 bytes md5       *)
(***************************************************************************)
HeaderLen == 42

NoInfo ==
    [min_block_size |-> 0, max_block_size |-> 0, min_frame_size |-> 0,
     max_frame_size |-> 0, sample_rate |-> 0, channels |-> 0,
     bits_per_sample |-> 0, total_samples |-> U64(0), md5_signature |-> <<>>]

RECURSIVE ReadFields(_, _)
ReadFields(r, widths) ==
    IF widths = <<>> THEN [ok |-> TRUE, fields |-> <<>>, r |-> r]
    ELSE LET x == ReadExact(r, Head(widths)) IN
         IF ~x.ok THEN [ok |-> FALSE, fields |-> <<>>, r |-> x.r]
         ELSE LET rest == ReadFields(x.r, Tail(widths)) IN
              [ok |-> rest.ok, fields |-> <<x.data>> \o rest.fields, r |-> rest.r]

from_async_reader(r) ==
    LET x == ReadFields(r, <<2, 2, 3, 3, 8, 16>>) IN
    IF ~x.ok THEN [ok |-> FALSE, info |-> NoInfo, r |-> x.r]
    ELSE LET f == x.fields
             s == f[5]
         IN [ok |-> TRUE,
             info |-> [min_block_size |-> BE(f[1]),
                       max_block_size |-> BE(f[2]),
                       min_frame_size |-> BE(f[3]),
                       max_frame_size |-> BE(f[4]),
                       sample_rate |-> s[1] * 4096 + s[2] * 16 + (s[3] \div 16),
                       channels |-> ((s[3] \div 2) % 8) + 1,
                       bits_per_sample |-> (s[3] % 2) * 16 + (s[4] \div 16) + 1,
                       total_samples |-> <<0, 0, 0, s[4] % 16, s[5], s[6], s[7], s[8]>>,
                       md5_signature |-> f[6]],
             r |-> x.r]

write_to(info) ==
    ToBE(info.min_block_size, 2) \o ToBE(info.max_block_size, 2)
        \o ToBE(info.min_frame_size, 3) \o ToBE(info.max_frame_size, 3)
        \o ToBE(info.sample_rate \div 16, 2)
        \o <<((info.sample_rate % 16) * 16 + (info.channels - 1) * 2
                + ((info.bits_per_sample - 1) \div 16)) % 256,
             (((info.bits_per_sample - 1) % 16) * 16 + info.total_samples[4]) % 256>>
        \o SubSeq(info.total_samples, 5, 8)
        \o info.md5_signature

(***************************************************************************)
(* ResourceReader: what a provider hands back.  Either the reader it was   *)
(* given (chained = FALSE), or header.chain(reader): the Cursor over the   *)
(* re-encoded header, read from its position, then the rest of the reader. *)
(***************************************************************************)
NoCursor == [buf |-> <<>>, position |-> 0]

Same(reader) == [chained |-> FALSE, cursor |-> NoCursor, inner |-> reader]

Chain(cursor, reader) == [chained |-> TRUE, cursor |-> cursor, inner |-> reader]

NoReader == Same(Reader([bytes |-> <<>>, err |-> FALSE]))

\* A reader read to its end: the bytes it yields and whether it ends in an error.
ReadToEnd(rr) ==
    [bytes |-> SubSeq(rr.cursor.buf, rr.cursor.position + 1, Len(rr.cursor.buf))
                 \o SubSeq(rr.inner.bytes, rr.inner.pos + 1, Len(rr.inner.bytes)),
     err |-> rr.inner.err]

(***************************************************************************)
(* read_header and read_duration                                           *)
(***************************************************************************)
Result(kind, error, duration, reader, info) ==
    [kind |-> kind, error |-> error, duration |-> duration, reader |-> reader, info |-> info]

Panic == Result("Panic", "", U64(0), NoReader, NoInfo)
Err(e) == Result("Err", e, U64(0), NoReader, NoInfo)
NoResult == Result("None", "", U64(0), NoReader, NoInfo)

\* A plausible bug: the Cursor is left where the writes ended.
HeaderCursorNoRewind(first, second, info) ==
    LET buf == write_u32(first) \o write_u32(second) \o write_to(info) IN
    [buf |-> buf, position |-> Len(buf)]

\* Cursor::new, the three writes, set_position(0).
HeaderCursor(first, second, info) ==
    [buf |-> write_u32(first) \o write_u32(second) \o write_to(info), position |-> 0]

read_header(reader) ==
    LET first == read_u32(reader) IN
    IF ~first.ok THEN Panic                       \* .unwrap() on the read's error
    ELSE LET second == read_u32(first.r) IN
    IF ~second.ok THEN Panic                      \* .unwrap() on the read's error
    ELSE LET d == from_async_reader(second.r) IN
    IF ~d.ok THEN Err("FlacError")                \* `?`
    ELSE Result("Ok", "", U64(0), Chain(HeaderCursor(first.v, second.v, d.info), d.r), d.info)

\* A plausible bug: the header is probed whatever the range.
contains_flac_header_always(range) == TRUE

contains_flac_header(range) == range.start = 0

\* info.total_samples / info.sample_rate as u64: truncating, and a panic
\* (None here) on a zero divisor.
Duration(info) ==
    IF info.sample_rate = 0 THEN None
    ELSE Some(LongDiv(info.total_samples, info.sample_rate, 0))

read_duration(reader, range) ==
    IF ~contains_flac_header(range) THEN Result("Ok", "", U64(0), Same(reader), NoInfo)
    ELSE LET h == read_header(reader) IN
         IF h.kind # "Ok" THEN h
         ELSE IF ~Duration(h.info).some THEN Panic
         ELSE Result("Ok", "", Duration(h.info).v, h.reader, h.info)

read_response(r) ==
    read_duration(Reader(r.body), content_range_to_range(r.content_range))

(***************************************************************************)
(* The files a backend stores and the responses it may give                *)
(***************************************************************************)
\* The 8-byte sample region of a STREAMINFO, with the values it encodes.
StreamInfos ==
    {[region |-> <<10, 196, 66, 240, 0, 6, 186, 168>>, sample_rate |-> 44100,
      total_samples |-> U64(441000), duration |-> U64(441000 \div 44100)],
     [region |-> <<10, 196, 66, 240, 0, 6, 186, 167>>, sample_rate |-> 44100,
      total_samples |-> U64(440999), duration |-> U64(440999 \div 44100)],
     [region |-> <<11, 184, 3, 112, 0, 0, 187, 127>>, sample_rate |-> 48000,
      total_samples |-> U64(47999), duration |-> U64(47999 \div 48000)],
     \* 2^32 + 5 samples at 96000: 44739 seconds
     [region |-> <<23, 112, 11, 113, 0, 0, 0, 5>>, sample_rate |-> 96000,
      total_samples |-> <<0, 0, 0, 1, 0, 0, 0, 5>>, duration |-> U64(44739)],
     \* 2^36 - 1 samples at 1
     [region |-> <<0, 0, 16, 15, 255, 255, 255, 255>>, sample_rate |-> 1,
      total_samples |-> <<0, 0, 0, 15, 255, 255, 255, 255>>,
      duration |-> <<0, 0, 0, 15, 255, 255, 255, 255>>],
     \* 2^36 - 1 samples at 2^20 - 1: 65536 seconds
     [region |-> <<255, 255, 255, 255, 255, 255, 255, 255>>, sample_rate |-> 1048575,
      total_samples |-> <<0, 0, 0, 15, 255, 255, 255, 255>>, duration |-> U64(65536)],
     \* a sample rate of 0: no duration
     [region |-> <<0, 0, 2, 240, 0, 6, 186, 168>>, sample_rate |-> 0,
      total_samples |-> U64(441000), duration |-> U64(0)]}

NoHdr == [region |-> <<>>, sample_rate |-> 0, total_samples |-> U64(0), duration |-> U64(0)]

\* The bytes around the sample region: marker, block-header word, md5.
Surroundings ==
    {[marker |-> <<102, 76, 97, 67>>, block |-> <<0, 0, 0, 34>>,
      md5 |-> <<1, 2, 3, 4, 5, 6, 7, 8, 9, 10, 11, 12, 13, 14, 15, 16>>],
     [marker |-> <<255, 255, 255, 255>>, block |-> <<128, 0, 0, 34>>,
      md5 |-> <<255, 0, 255, 0, 128, 127, 1, 254, 0, 0, 0, 0, 255, 255, 255, 255>>]}

BlockSizes == <<16, 0, 16, 0, 0, 0, 14, 0, 47, 161>>

PayloadLen == 50
Payload == [i \in 1..PayloadLen |-> IF i = 1 THEN 255 ELSE IF i = PayloadLen THEN 0 ELSE 17]

Files ==
    {[hdr |-> h, bytes |-> v.marker \o v.block \o BlockSizes \o h.region \o v.md5 \o Payload] :
        h \in StreamInfos, v \in Surroundings}

\* Where a body may stop short, and whether it then ends in an I/O error.
Cuts == {0, 3, 6, 20, 41}

Bodies(full) ==
    {[bytes |-> SubSeq(full, 1, n), err |-> e] :
        n \in {c \in Cuts : c < Len(full)} \cup {Len(full)}, e \in BOOLEAN}

RECURSIVE DecimalString(_)
DecimalString(n) ==
    LET d == <<"0", "1", "2", "3", "4", "5", "6", "7", "8", "9">>[(n % 10) + 1] IN
    IF n < 10 THEN <<d>> ELSE Append(DecimalString(n \div 10), d)

From(bytes, offset) == SubSeq(bytes, offset + 1, Len(bytes))

Response(status, cr, cl, body, offset, hdr) ==
    [status |-> status, content_range |-> cr, content_length |-> cl, body |-> body,
     offset |-> offset, hdr |-> hdr]

NoResponse == Response(0, NoneStr, None, [bytes |-> <<>>, err |-> FALSE], None, NoHdr)

\* 200: the whole file, no Content-Range.  The length is known, or not (chunked).
FullResponses ==
    UNION {{Response(200, NoneStr, cl, b, Some(0), f.hdr) :
                b \in Bodies(f.bytes), cl \in {Some(Len(f.bytes)), None}} :
           f \in Files}

PartialOffsets == {0, 50}

\* 206 with the Content-Range of the bytes served.
PartialResponses ==
    UNION {{Response(206,
                     Some(FormHeader(DecimalString(o), DecimalString(Len(f.bytes) - 1),
                                     DecimalString(Len(f.bytes)))),
                     Some(Len(f.bytes) - o), b, Some(o), f.hdr) :
                b \in {[bytes |-> From(f.bytes, o), err |-> FALSE],
                       [bytes |-> SubSeq(From(f.bytes, o), 1, 20), err |-> TRUE]}} :
           f \in Files, o \in PartialOffsets}

\* 206 whose Content-Range start is missing or is no number.
MalformedRanges ==
    {BytesPrefix \o <<"x", "-", "9", "1", "/", "9", "2">>,
     BytesPrefix \o <<"-", "9", "1", "/", "9", "2">>,
     BytesPrefix \o <<"*", "/", "9", "2">>}

MalformedResponses ==
    {Response(206, Some(cr), Some(Len(f.bytes) - o), [bytes |-> From(f.bytes, o), err |-> FALSE],
              Some(o), f.hdr) :
        f \in Files, o \in PartialOffsets, cr \in MalformedRanges}

\* 404: the body is an error page, not file data.
ErrorPages == {<<78, 111, 116, 32, 70, 111, 117, 110, 100>>, [i \in 1..60 |-> 17]}

NotFoundResponses ==
    {Response(404, NoneStr, Some(Len(b)), [bytes |-> b, err |-> FALSE], None, NoHdr) :
        b \in ErrorPages}

Responses == FullResponses \cup PartialResponses \cup MalformedResponses \cup NotFoundResponses

RequestRanges == {FULL, [start |-> 50, end |-> None, total |-> None]}

(***************************************************************************)
(* Spec: one provider call                                                 *)
(***************************************************************************)
Outcome(r, size) ==
    [kind |-> r.kind, error |-> r.error, duration |-> r.duration, reader |-> r.reader,
     info |-> r.info, size |-> size]

NoCall == [backend |-> "", op |-> "", range |-> FULL, link |-> 0]

OpInit ==
    /\ pc = "idle"
    /\ call = NoCall
    /\ resp = NoResponse
    /\ out = Outcome(NoResult, 0)
    /\ delivered = [bytes |-> <<>>, err |-> FALSE]

Call ==
    /\ pc = "idle"
    /\ \E b \in {"Webdav", "Seafile"}, o \in {"get_audio", "get_cover"}, r \in RequestRanges :
        call' = [backend |-> b, op |-> o, range |-> r, link |-> 0]
    /\ pc' = "called"
    /\ UNCHANGED <<resp, out, delivered, cr_vars, sv_vars>>

\* WebdavProvider::get_cover is todo!(), SeafileProvider::get_cover unimplemented!().
get_cover ==
    /\ pc = "called"
    /\ call.op = "get_cover"
    /\ out' = Outcome(Panic, 0)
    /\ pc' = "done"
    /\ UNCHANGED <<call, resp, delivered, cr_vars, sv_vars>>

\* reqwest_dav::Error::Reqwest(e) => e.into(), _ => GeneralError
handle_dav_error(e) == IF e = "Reqwest" THEN "RequestError" ELSE "GeneralError"

\* WebdavProvider::get_audio up to its request: start_request(..).map_err(handle_dav_error)?
StartRequest ==
    /\ pc = "called"
    /\ call.op = "get_audio"
    /\ call.backend = "Webdav"
    /\ \/ /\ pc' = "send"
          /\ UNCHANGED out
       \/ /\ \E e \in {"Reqwest", "Decode"} : out' = Outcome(Err(handle_dav_error(e)), 0)
          /\ pc' = "done"
    /\ UNCHANGED <<call, resp, delivered, cr_vars, sv_vars>>

\* SeafileProvider::get_audio up to its request: get_download_link(..).await?
\* The link request fails in transport, or is answered; the answer's status
\* is not looked at, its body is read as a JSON string.
get_download_link ==
    /\ pc = "called"
    /\ call.op = "get_audio"
    /\ call.backend = "Seafile"
    /\ \/ /\ out' = Outcome(Err("RequestError"), 0)          \* send() failed
          /\ pc' = "done"
          /\ UNCHANGED call
       \/ \E status \in {200, 404}, json \in BOOLEAN :
            /\ call' = [call EXCEPT !.link = status]
            /\ IF json
               THEN pc' = "send" /\ UNCHANGED out
               ELSE pc' = "done" /\ out' = Outcome(Err("RequestError"), 0)
    /\ UNCHANGED <<resp, delivered, cr_vars, sv_vars>>

\* req.send().await?
Send ==
    /\ pc = "send"
    /\ \/ /\ out' = Outcome(Err("RequestError"), 0)
          /\ pc' = "done"
          /\ UNCHANGED resp
       \/ /\ \E r \in Responses : resp' = r
          /\ pc' = "response"
          /\ UNCHANGED out
    /\ UNCHANGED <<call, delivered, cr_vars, sv_vars>>

\* The rest of get_audio: content_length().unwrap(), read_response(resp).await?,
\* and the AudioResourceReader built from both.
AudioResourceReader(r) ==
    IF ~r.content_length.some THEN Outcome(Panic, 0)
    ELSE LET d == read_response(r) IN
         Outcome(d, IF d.kind = "Ok" THEN r.content_length.v ELSE 0)

get_audio ==
    /\ pc = "response"
    /\ out' = AudioResourceReader(resp)
    /\ pc' = "done"
    /\ UNCHANGED <<call, resp, delivered, cr_vars, sv_vars>>

\* The caller reads the reader it was given to its end.
Consume ==
    /\ pc = "done"
    /\ out.kind = "Ok"
    /\ delivered' = ReadToEnd(out.reader)
    /\ pc' = "consumed"
    /\ UNCHANGED <<call, resp, out, cr_vars, sv_vars>>

OpNext == Call \/ get_cover \/ StartRequest \/ get_download_link \/ Send \/ get_audio \/ Consume

(***************************************************************************)
(* ServeSpec: the handlers of make_app sharing the provider.                *)
(* audio_redirect and cover_redirect take the provider's read guard        *)
(* (provider.read().await) and keep it until they return; reload needs     *)
(* &mut self, which the RwLock gives to one writer and no reader.  The     *)
(* RwLock is tokio's: waiters are served first in, first out.              *)
(***************************************************************************)
Clients == {"c1", "c2"}
Admin == "admin"
Procs == Clients \cup {Admin}

\* The provider types: SeafileProvider, which overrides get_audio_link and
\* get_cover_link, and a provider that takes AnniURLProvider's defaults over
\* a get_audio and get_cover like WebdavProvider's.
Backends == {"Seafile", "Default"}

NoReq == [kind |-> "", start |-> -1, link_at |-> -1, info_at |-> -1, probe |-> "", response |-> ""]

SvInit ==
    /\ hpc = [p \in Procs |-> "idle"]
    /\ req = [p \in Clients |-> NoReq]
    /\ readers = {}
    /\ writer = ""
    /\ waitq = <<>>
    /\ epoch = 0
    /\ backend \in Backends

\* A request reaches its handler, which awaits the read guard.
Request(p) ==
    /\ hpc[p] = "idle"
    /\ \E k \in {"audio", "cover"} : req' = [req EXCEPT ![p] = [NoReq EXCEPT !.kind = k]]
    /\ waitq' = Append(waitq, p)
    /\ hpc' = [hpc EXCEPT ![p] = "wait"]
    /\ UNCHANGED <<readers, writer, epoch, backend, cr_vars, op_vars>>

\* let provider = provider.read().await;
AcquireRead(p) ==
    /\ hpc[p] = "wait"
    /\ waitq # <<>> /\ Head(waitq) = p
    /\ writer = ""
    /\ readers' = readers \cup {p}
    /\ waitq' = Tail(waitq)
    /\ req' = [req EXCEPT ![p].start = epoch]
    /\ hpc' = [hpc EXCEPT ![p] = "link"]
    /\ UNCHANGED <<writer, epoch, backend, cr_vars, op_vars>>

\* What the probe can come back with.  SeafileProvider: Ok(Ok(link)) or the
\* link request's error.  The default get_audio_link is get_audio(..).map(Err):
\* a reader, an error, or get_audio's panic; the default get_cover_link runs
\* get_cover, which panics.
AudioProbes(b) == IF b = "Seafile" THEN {"url", "err"} ELSE {"reader", "err", "panic"}
CoverProbes(b) == IF b = "Seafile" THEN {"url", "err"} ELSE {"panic"}

\* The handlers' match on the probe:
\*   Ok(Ok(uri)) => uri, Err(e) => Error::from(e) (404), _ => 404
\* and a panic ends the task with no response.
ProbeResponse(probe) ==
    CASE probe = "url" -> "redirect"
      [] probe = "err" -> "not_found"
      [] probe = "reader" -> "not_found"
      [] probe = "panic" -> "aborted"

\* A plausible bug: the guard is a temporary of the first call's statement
\* (provider.read().await.get_audio_link(..)), dropped when the call returns.
GuardAfterLinkDropped(p) == readers \ {p}

\* The guard is a local of the handler: it is held until the handler returns.
GuardAfterLink(p) == readers

\* audio_redirect: the probe.  With a link it goes on to get_audio_info.
get_audio_link(p) ==
    /\ hpc[p] = "link"
    /\ req[p].kind = "audio"
    /\ \E probe \in AudioProbes(backend) :
        /\ req' = [req EXCEPT ![p].probe = probe, ![p].link_at = epoch,
                              ![p].response = IF probe = "url" THEN "" ELSE ProbeResponse(probe)]
        /\ hpc' = [hpc EXCEPT ![p] = IF probe = "url" THEN "info" ELSE "done"]
        /\ readers' = IF probe = "url" THEN GuardAfterLink(p) ELSE readers \ {p}
    /\ UNCHANGED <<writer, waitq, epoch, backend, cr_vars, op_vars>>

\* audio_redirect: get_audio_info (get_audio on the header range), then the
\* redirect with the X- headers; an error is a 404.
get_audio_info(p) ==
    /\ hpc[p] = "info"
    /\ \E info \in {"ok", "err", "panic"} :
        req' = [req EXCEPT ![p].info_at = epoch,
                           ![p].response = CASE info = "ok" -> "redirect"
                                             [] info = "err" -> "not_found"
                                             [] info = "panic" -> "aborted"]
    /\ hpc' = [hpc EXCEPT ![p] = "done"]
    /\ readers' = readers \ {p}
    /\ UNCHANGED <<writer, waitq, epoch, backend, cr_vars, op_vars>>

\* cover_redirect: the probe and the response.
get_cover_link(p) ==
    /\ hpc[p] = "link"
    /\ req[p].kind = "cover"
    /\ \E probe \in CoverProbes(backend) :
        req' = [req EXCEPT ![p].probe = probe, ![p].link_at = epoch,
                           ![p].response = ProbeResponse(probe)]
    /\ hpc' = [hpc EXCEPT ![p] = "done"]
    /\ readers' = readers \ {p}
    /\ UNCHANGED <<writer, waitq, epoch, backend, cr_vars, op_vars>>

\* The connection is free for its next request.
Finish(p) ==
    /\ hpc[p] = "done"
    /\ hpc' = [hpc EXCEPT ![p] = "idle"]
    /\ UNCHANGED <<req, readers, writer, waitq, epoch, backend, cr_vars, op_vars>>

\* POST /admin/reload reaches its handler, which awaits the write guard.
ReloadRequest ==
    /\ hpc[Admin] = "idle"
    /\ epoch < MaxReloads
    /\ waitq' = Append(waitq, Admin)
    /\ hpc' = [hpc EXCEPT ![Admin] = "wait"]
    /\ UNCHANGED <<req, readers, writer, epoch, backend, cr_vars, op_vars>>

AcquireWrite ==
    /\ hpc[Admin] = "wait"
    /\ waitq # <<>> /\ Head(waitq) = Admin
    /\ writer = "" /\ readers = {}
    /\ writer' = Admin
    /\ waitq' = Tail(waitq)
    /\ hpc' = [hpc EXCEPT ![Admin] = "reload"]
    /\ UNCHANGED <<req, readers, epoch, backend, cr_vars, op_vars>>

\* reload(&mut self) -> Ok(()), and the write guard is dropped.
reload ==
    /\ hpc[Admin] = "reload"
    /\ epoch' = epoch + 1
    /\ writer' = ""
    /\ hpc' = [hpc EXCEPT ![Admin] = "idle"]
    /\ UNCHANGED <<req, readers, waitq, backend, cr_vars, op_vars>>

SvNext ==
    \/ \E p \in Clients :
        Request(p) \/ AcquireRead(p) \/ get_audio_link(p) \/ get_audio_info(p)
            \/ get_cover_link(p) \/ Finish(p)
    \/ ReloadRequest
    \/ AcquireWrite
    \/ reload

(***************************************************************************)
(* The specifications                                                      *)
(***************************************************************************)
Init == CrInit /\ OpInit /\ SvInit

RangeNext == ParseAbsent \/ ParseShort \/ ParseForm

RangeSpec == Init /\ [][RangeNext]_vars

Next == OpNext

Spec == Init /\ [][Next]_vars

\* Every await of a handler that holds or is queued for the guard returns:
\* the runtime polls ready tasks, and the backend answers or fails.
ServeFairness ==
    /\ \A p \in Clients :
        /\ WF_vars(AcquireRead(p))
        /\ WF_vars(get_audio_link(p))
        /\ WF_vars(get_audio_info(p))
        /\ WF_vars(get_cover_link(p))
    /\ WF_vars(AcquireWrite)
    /\ WF_vars(reload)

ServeSpec == Init /\ [][SvNext]_vars /\ ServeFairness

(***************************************************************************)
(* The claims                                                              *)
(***************************************************************************)
Returned == pc \in {"done", "consumed"}

\* get_audio got as far as read_response on the response it received.
ReadResponseRan == Returned /\ resp # NoResponse /\ resp.content_length.some

ServedRange == content_range_to_range(resp.content_range)

\* C1: when the header was read and decoded, the reader handed back, read to
\* its end, yields the response body exactly: its 42 header bytes once, in
\* order and unchanged, then the rest, and the same end of stream.
C1_SplicedStreamIsOriginal ==
    (pc = "consumed" /\ out.reader.chained) => delivered = resp.body

C1_Witness ==
    /\ pc = "consumed"
    /\ out.reader.chained
    /\ Len(resp.body.bytes) = HeaderLen + PayloadLen
    /\ resp.hdr.sample_rate = 44100
    /\ out.reader.inner.pos = HeaderLen
    /\ delivered.bytes = resp.body.bytes

\* C2: a range whose start is not 0 gives duration 0 and the very reader that
\* was passed in, at position 0 and with no read issued on it.
C2_NonZeroStartUntouched ==
    (ReadResponseRan /\ ServedRange.start # 0) =>
        /\ out.kind = "Ok"
        /\ out.duration = U64(0)
        /\ out.reader = Same(Reader(resp.body))

C2_Witness ==
    /\ pc = "done"
    /\ resp.status = 206
    /\ ServedRange.start = 50
    /\ out.kind = "Ok"
    /\ ~out.reader.chained
    /\ out.reader.inner.reads = 0
    /\ out.reader.inner.pos = 0

\* C3: a failure while reading the 42-byte header region (the stream ends or
\* errs before 42 bytes) makes get_audio return an error value: not a panic,
\* not success.
C3_HeaderFailureIsError ==
    (ReadResponseRan /\ ServedRange.start = 0 /\ Len(resp.body.bytes) < HeaderLen) =>
        out.kind = "Err"

\* C4: get_cover on a backend that does not implement it returns the
\* Unsupported error as a value.
C4_CoverUnsupported ==
    (Returned /\ call.op = "get_cover") => (out.kind = "Err" /\ out.error = "Unsupported")

\* C5: content_range_to_range gives FULL for an absent header and for one of
\* length <= 6, and for "bytes S-E/T" the start S (0 when S does not parse),
\* the end E and the total T (absent when they do not parse), each field on
\* its own; "bytes 0-1023/10240" gives {0, 1023, 10240}.
C5_LenientContentRange ==
    cr_pc = "parsed" =>
        /\ cr_parts.form \in {"absent", "short"} => cr_out = FULL
        /\ cr_parts.form = "short" => Len(cr_in.v) <= 6
        /\ cr_parts.form = "bytes" =>
            cr_out = [start |-> IF ParseU64(cr_parts.s).some THEN ParseU64(cr_parts.s).v ELSE 0,
                      end |-> ParseU64(cr_parts.e),
                      total |-> ParseU64(cr_parts.t)]
        /\ cr_in = Some(<<"b", "y", "t", "e", "s", " ", "0", "-", "1", "0", "2", "3", "/",
                          "1", "0", "2", "4", "0">>) =>
            cr_out = [start |-> 0, end |-> Some(1023), total |-> Some(10240)]

\* One field fails while the other two parse.
C5_Witness ==
    /\ cr_pc = "parsed"
    /\ cr_parts.form = "bytes"
    /\ cr_parts.s = <<"+", "/">>
    /\ cr_out = [start |-> 0, end |-> Some(22), total |-> Some(3)]

\* C6: a stream served from offset 0 whose header decodes gives a result with
\* duration = total_samples / sample_rate, truncated, whatever the two values.
C6_DurationIsQuotient ==
    (ReadResponseRan /\ resp.status = 200 /\ Len(resp.body.bytes) >= HeaderLen) =>
        (out.kind = "Ok" /\ out.duration = resp.hdr.duration)

\* C7: a not-found answer to the track request or to the download-link
\* request makes get_audio return NotFound.
C7_NotFoundIsReported ==
    (Returned /\ call.op = "get_audio" /\ (resp.status = 404 \/ call.link = 404)) =>
        (out.kind = "Err" /\ out.error = "NotFound")

\* C9: a 200 or 206 response whose body does not begin at file offset 0 gets
\* duration 0 and its body passed through with no header read.
C9_DurationOnlyFromOffsetZero ==
    (ReadResponseRan /\ resp.status \in {200, 206} /\ resp.offset # Some(0)) =>
        /\ out.kind = "Ok"
        /\ out.duration = U64(0)
        /\ out.reader = Same(Reader(resp.body))

\* While a request is in flight no reload takes effect, and each of its
\* backend calls ran in the epoch it started in.
C8_Safe ==
    \A p \in Clients :
        /\ hpc[p] \in {"link", "info"} => epoch = req[p].start
        /\ req[p].link_at # -1 => req[p].link_at = req[p].start
        /\ req[p].info_at # -1 => req[p].info_at = req[p].start

\* C8: a reload issued while a fetch is in flight leaves the fetch alone: each
\* backend call of a request runs in the epoch the request started in, a
\* reload takes effect only between requests, and every request and every
\* reload that was issued completes.
C8_ReloadLeavesFetchAlone ==
    /\ []C8_Safe
    /\ \A p \in Clients : (hpc[p] = "wait") ~> (hpc[p] = "done")
    /\ (hpc[Admin] = "wait") ~> (hpc[Admin] = "idle")

\* A fetch between its two backend calls, a reload waiting behind it, after
\* an earlier reload.
C8_Witness ==
    \E p \in Clients :
        /\ hpc[p] = "info"
        /\ hpc[Admin] = "wait"
        /\ epoch = 1

\* C10: when the probe yields a byte reader instead of a URL, the handler
\* falls back to streaming it; it does not answer not-found.
C10_FallsBackToStreaming ==
    \A p \in Clients :
        (hpc[p] = "done" /\ req[p].probe = "reader") => req[p].response = "stream"

====
